---- MODULE Spec2Model ----
(***************************************************************************)
(* Model of the Discogs genre scraper (rock_genre/scraper.py,              *)
(* rock_genre/pipeline_runner.py, rock_genre/helpers.py).                  *)
(*                                                                         *)
(* Text is modelled as a sequence of tokens.  A URL is a sequence of       *)
(* tokens such as <<BASE_URL, "/artist/", "1", "?", "x=1">>; the string    *)
(* operations of the code (split, strip, in) act on tokens.  Track and     *)
(* album names are sequences of one-character tokens.  Python's None is    *)
(* the one-token sequence None, so that it compares with any text.         *)
(***************************************************************************)
EXTENDS Integers, Sequences, FiniteSets, TLC

VARIABLES
  pc,            \* control location of main and of the functions it calls
  exc,           \* the exception in flight ("none" when there is none)
  listing,       \* the genre page: one entry per LIST_SELECTORS selector
  artist_limit,  \* main's artist_limit
  album_limit,   \* main's album_limit
  artists,       \* the list returned by get_artists_by_genre
  idx,           \* enumerate index of process_artists_and_save (from 1)
  adoc,          \* the artist document loaded by get_artist_data
  artist_data,   \* return value of get_artist_data
  album_links,   \* get_artist_data: album_links
  aidx,          \* get_artist_data: position in album_links
  albums,        \* get_artist_data: albums
  doc,           \* the album document loaded by get_album_data
  album_data,    \* return value of get_album_data
  all_artists,   \* process_artists_and_save: all_artists
  warned,        \* locators reported by "[WARN] Failed to extract artist data"
  save,          \* "none", "ok" or "failed": the jsonlines write
  output,        \* records written to OUTPUT_FILE
  navs,          \* the locators passed to driver.get, in call order
  paused,        \* a random_delay happened since the last driver.get
  quits          \* number of driver.quit calls

vars == <<pc, exc, listing, artist_limit, album_limit, artists, idx, adoc,
          artist_data, album_links, aidx, albums, doc, album_data,
          all_artists, warned, save, output, navs, paused, quits>>

(***************************************************************************)
(* Bounds of the model.                                                    *)
(***************************************************************************)
MaxLinks == 3        \* links on one genre page, all sections together
MaxLimit == 2        \* largest artist_limit tried
MaxAlbumLimit == 2   \* largest album_limit tried
MaxRows == 3         \* tracklist rows of one album document
MaxHtml == 5         \* characters of raw markup of one album document

(***************************************************************************)
(* Generic text helpers.                                                   *)
(***************************************************************************)
None == <<"None">>
Raises == <<"Raises">>
NoSuchElement == <<"NoSuchElementException">>

SeqsUpTo(S, n) == UNION {[1..k -> S] : k \in 0..n}

Contains(s, tok) == \E i \in 1..Len(s) : s[i] = tok

Falsy(s) == s = None \/ s = <<>>

Take(s, n) == SubSeq(s, 1, IF n < Len(s) THEN n ELSE Len(s))

NoDuplicates(s) == \A i, j \in 1..Len(s) : s[i] = s[j] => i = j

\* str.split(sep)[0]: the text before the first occurrence of sep
SplitFirst(s, sep) ==
  IF Contains(s, sep)
  THEN LET i == CHOOSE k \in 1..Len(s) :
                  s[k] = sep /\ \A m \in 1..(k - 1) : s[m] # sep
       IN SubSeq(s, 1, i - 1)
  ELSE s

\* str.split(sep)[-1]: the text after the last occurrence of sep
SplitLast(s, sep) ==
  IF Contains(s, sep)
  THEN LET i == CHOOSE k \in 1..Len(s) :
                  s[k] = sep /\ \A m \in (k + 1)..Len(s) : s[m] # sep
       IN SubSeq(s, i + 1, Len(s))
  ELSE s

\* str.strip(): drop leading and trailing whitespace
RECURSIVE Strip(_)
Strip(s) ==
  IF s = <<>> THEN s
  ELSE IF Head(s) = " " THEN Strip(Tail(s))
  ELSE IF s[Len(s)] = " " THEN Strip(SubSeq(s, 1, Len(s) - 1))
  ELSE s

(***************************************************************************)
(* constants.py                                                            *)
(***************************************************************************)
BASE_URL == "https://www.discogs.com"
GENRE_SLUG == "rock"
GenreUrl == <<BASE_URL, "/genre/", GENRE_SLUG>>
NumSelectors == 4

(***************************************************************************)
(* get_artists_by_genre: normalisation, deduplication, limit.              *)
(***************************************************************************)
\* line 78: the link is skipped
NotArtistLink(href) == Falsy(href) \/ ~Contains(href, "/artist/")

\* line 82, a version that keeps the query component
NormalizedPathKeepQuery(href) == Strip(SplitLast(href, BASE_URL))

\* line 82
NormalizedPath(href) == Strip(SplitLast(SplitFirst(href, "?"), BASE_URL))

\* line 83
FullUrl(normalized_path) == <<BASE_URL>> \o normalized_path

\* lines 85-87, a version that appends without looking at seen_paths
AddArtistNoDedup(seen_paths, arts, normalized_path) ==
  Append(arts, FullUrl(normalized_path))

\* lines 85-87
AddArtist(seen_paths, arts, normalized_path) ==
  IF normalized_path \notin seen_paths
  THEN Append(arts, FullUrl(normalized_path))
  ELSE arts

\* lines 64 and 90, a version that stops one entry late
LimitReachedLate(arts, limit) == Len(arts) > limit

\* lines 64 and 90
LimitReached(arts, limit) == Len(arts) >= limit

\* lines 74-91: the loop over the links of one section.  A link whose
\* get_attribute raises ends the section (lines 96-98) with what was
\* collected so far.
RECURSIVE ScanLinks(_, _, _, _)
ScanLinks(links, seen_paths, arts, limit) ==
  IF links = <<>> THEN [seen_paths |-> seen_paths, artists |-> arts]
  ELSE LET href == Head(links) IN
    IF href = Raises THEN [seen_paths |-> seen_paths, artists |-> arts]
    ELSE IF NotArtistLink(href)
         THEN ScanLinks(Tail(links), seen_paths, arts, limit)
    ELSE LET np == NormalizedPath(href)
             arts2 == AddArtist(seen_paths, arts, np)
             seen2 == seen_paths \cup {np}
         IN IF LimitReached(arts2, limit)
            THEN [seen_paths |-> seen2, artists |-> arts2]
            ELSE ScanLinks(Tail(links), seen2, arts2, limit)

\* lines 63-98: the loop over LIST_SELECTORS
RECURSIVE ScanSections(_, _, _, _)
ScanSections(sections, seen_paths, arts, limit) ==
  IF sections = <<>> THEN arts
  ELSE IF LimitReached(arts, limit) THEN arts
  ELSE LET s == Head(sections) IN
    IF s.missing
    THEN ScanSections(Tail(sections), seen_paths, arts, limit)
    ELSE LET r == ScanLinks(s.links, seen_paths, arts, limit)
         IN ScanSections(Tail(sections), r.seen_paths, r.artists, limit)

\* lines 52-57, a version that scans although the first section is absent
CollectArtistsNoWait(page, limit) == ScanSections(page, {}, <<>>, limit)

\* lines 52-105: what get_artists_by_genre returns once the page is loaded
CollectArtists(page, limit) ==
  IF page[1].missing THEN <<>>
  ELSE ScanSections(page, {}, <<>>, limit)

(***************************************************************************)
(* Genre pages tried.                                                      *)
(***************************************************************************)
HrefA1q == <<BASE_URL, "/artist/", "1", "?", "x=1">>
HrefA1 == <<BASE_URL, "/artist/", "1">>
HrefA2 == <<BASE_URL, "/artist/", "2">>
HrefA3 == <<"/artist/", "3", " ">>
HrefOther == <<"https://other.com", "/link">>
\* what get_attribute("href") gives for the links of a genre page tried by
\* SpecDiscover: two spellings of one artist, a second artist, a link that
\* is no artist link, no href at all, and an exception
Hrefs == {HrefA1q, HrefA1, HrefA3, HrefOther, None, Raises}

SectionOf(links, missing) == [missing |-> missing, links |-> links]

\* the genre page whose sections hold the links of flat, cut at c1, c2, c3
PageOf(flat, c1, c2, c3, miss) ==
  << SectionOf(SubSeq(flat, 1, c1), 1 \in miss),
     SectionOf(SubSeq(flat, c1 + 1, c2), 2 \in miss),
     SectionOf(SubSeq(flat, c2 + 1, c3), 3 \in miss),
     SectionOf(SubSeq(flat, c3 + 1, Len(flat)), 4 \in miss) >>

EmptySections(page) == {i \in 1..NumSelectors : page[i].links = <<>>}

\* which sections without links are not found at all (find_element raises
\* NoSuchElementException, line 93): none, all of them, or all but the first
MissingChoices(page) ==
  {{}, EmptySections(page), EmptySections(page) \ {1}}

(***************************************************************************)
(* get_artist_data: collection of the album links.                         *)
(***************************************************************************)
\* line 203: the link is kept
IsAlbumLink(href) ==
  ~Falsy(href) /\ (Contains(href, "/release/") \/ Contains(href, "/master/"))

\* line 204
NormalizedUrl(href) == SplitFirst(href, "?")

\* lines 201-212: the loop over candidate_links.  The limit is compared
\* only after a link has been appended (line 208); a link whose
\* get_attribute raises empties album_links (lines 211-212).
RECURSIVE ScanAlbumLinks(_, _, _, _)
ScanAlbumLinks(candidate_links, seen, links, limit) ==
  IF candidate_links = <<>> THEN links
  ELSE LET href == Head(candidate_links) IN
    IF href = Raises THEN <<>>
    ELSE IF IsAlbumLink(href) /\ NormalizedUrl(href) \notin seen
    THEN LET links2 == Append(links, NormalizedUrl(href)) IN
         IF Len(links2) >= limit THEN links2
         ELSE ScanAlbumLinks(Tail(candidate_links),
                             seen \cup {NormalizedUrl(href)}, links2, limit)
    ELSE ScanAlbumLinks(Tail(candidate_links), seen, links, limit)

\* lines 193-212
CollectAlbumLinks(candidate_links, limit) ==
  ScanAlbumLinks(candidate_links, {}, <<>>, limit)

(***************************************************************************)
(* get_album_data: the tracklist.                                          *)
(***************************************************************************)
Digits == {"0", "1", "2", "3", "4", "5", "6", "7", "8", "9"}

\* re.match(r"^\d+$", name), line 374
AllDigits(name) == name # <<>> /\ \A i \in 1..Len(name) : name[i] \in Digits

\* Python's "a in s" on text
IsIn(a, s) ==
  \E i \in 0..(Len(s) - Len(a)) : SubSeq(s, i + 1, i + Len(a)) = a

\* line 378: the literal 10
RestateSlack == 10

\* lines 375-379, a version whose length test is <= instead of <
RestatesAlbumInclusive(name, album_name_raw) ==
  /\ ~Falsy(album_name_raw)
  /\ IsIn(album_name_raw, name)
  /\ Len(name) <= Len(album_name_raw) + RestateSlack

\* lines 375-379
RestatesAlbum(name, album_name_raw) ==
  /\ ~Falsy(album_name_raw)
  /\ IsIn(album_name_raw, name)
  /\ Len(name) < Len(album_name_raw) + RestateSlack

\* lines 372-380, a version without the purely-numeric test
DiscardRowNoDigits(name, album_name_raw) ==
  Falsy(name) \/ RestatesAlbum(name, album_name_raw)

\* lines 372-380: the integrity filter
DiscardRow(name, album_name_raw) ==
  Falsy(name) \/ AllDigits(name) \/ RestatesAlbum(name, album_name_raw)

\* lines 349-354
DurRaw(r) == IF r.dur = NoSuchElement THEN None ELSE r.dur

\* lines 364-369: the first text that is not the duration and is longer
\* than 5 characters
RECURSIVE FallbackName(_, _)
FallbackName(all_texts, dur_raw) ==
  IF all_texts = <<>> THEN None
  ELSE LET ttxt == Head(all_texts) IN
    IF ttxt # <<>> /\ ttxt # dur_raw /\ Len(ttxt) > 5 THEN ttxt
    ELSE FallbackName(Tail(all_texts), dur_raw)

\* lines 356-369
TrackName(r) ==
  IF r.title = NoSuchElement THEN FallbackName(r.cells, DurRaw(r))
  ELSE r.title

\* a row whose element lookups raise something other than NoSuchElement
RowRaises(r) == r.title = Raises \/ r.dur = Raises

\* lines 381 and 391, a version that counts discarded rows too
NextTnAlways(tn, discarded) == tn + 1

\* lines 381 and 391: the counter moves only when a track is appended
NextTn(tn, discarded) == IF discarded THEN tn ELSE tn + 1

\* lines 346-391: the loop over rows; failed is the except of line 393
RECURSIVE ScanRows(_, _, _, _)
ScanRows(rows, tn, tracks, album_name_raw) ==
  IF rows = <<>> THEN [failed |-> FALSE, tracks |-> tracks]
  ELSE LET r == Head(rows) IN
    IF RowRaises(r) THEN [failed |-> TRUE, tracks |-> <<>>]
    ELSE LET name == TrackName(r)
             discarded == DiscardRow(name, album_name_raw)
             tracks2 == IF discarded THEN tracks
                        ELSE Append(tracks, [track_number |-> tn,
                                             track_name |-> name,
                                             duration |-> DurRaw(r)])
         IN ScanRows(Tail(rows), NextTn(tn, discarded), tracks2,
                     album_name_raw)

\* line 398: sorted(tracks, key=track_number), a stable insertion sort
RECURSIVE InsertTrack(_, _)
InsertTrack(sorted, t) ==
  IF sorted = <<>> THEN <<t>>
  ELSE IF sorted[Len(sorted)].track_number <= t.track_number
       THEN Append(sorted, t)
       ELSE Append(InsertTrack(SubSeq(sorted, 1, Len(sorted) - 1), t),
                   sorted[Len(sorted)])

RECURSIVE SortedTracks(_)
SortedTracks(tracks) ==
  IF tracks = <<>> THEN <<>>
  ELSE InsertTrack(SortedTracks(SubSeq(tracks, 1, Len(tracks) - 1)),
                   tracks[Len(tracks)])

\* lines 343-398
ExtractTracks(d) == SortedTracks(ScanRows(d.rows, 1, <<>>, d.h1).tracks)

(***************************************************************************)
(* get_album_data: the release year.                                       *)
(***************************************************************************)
\* characters that are not word characters for the regex anchor \b
NonWord == {" ", "<", ">", ":", "(", ")", "!", "?", "=", "/"}

IsWordChar(c) == c \notin NonWord

FourDigitsAt(s, i) ==
  i + 3 <= Len(s) /\ \A k \in i..(i + 3) : s[k] \in Digits

\* re.search(r"year=(\d{4})", href), line 289: positions of the group
YearMatches(href) ==
  {i \in 2..Len(href) : href[i - 1] = "year=" /\ FourDigitsAt(href, i)}

\* re.findall(r"\b(19|20)\d{2}\b", page_html), line 293: where a match
\* starts, overlapping candidates included
YearTokenAt(html, i) ==
  /\ FourDigitsAt(html, i)
  /\ SubSeq(html, i, i + 1) \in {<<"1", "9">>, <<"2", "0">>}
  /\ (i = 1 \/ ~IsWordChar(html[i - 1]))
  /\ (i + 4 > Len(html) \/ ~IsWordChar(html[i + 4]))

\* lines 292-295: findall returns the text of the one group, "19" or "20",
\* and years[0] is the group of the first match
FallbackYear(html) ==
  LET starts == {i \in 1..Len(html) : YearTokenAt(html, i)} IN
  IF starts = {} THEN None
  ELSE LET i == CHOOSE k \in starts : \A m \in starts : k <= m
       IN SubSeq(html, i, i + 1)

\* lines 283-291: find_element raises when there is no Year cell, and
\* re.search raises TypeError when the link has no href
PrimaryRaises(d) == ~d.year.found \/ d.year.href = None

\* lines 282-295
ReleaseYear(d) ==
  IF PrimaryRaises(d) THEN FallbackYear(d.html)
  ELSE LET ms == YearMatches(d.year.href) IN
    IF ms # {}
    THEN LET i == CHOOSE k \in ms : \A m \in ms : k <= m
         IN SubSeq(d.year.href, i, i + 3)
    ELSE d.year.text

\* lines 270-410: the record get_album_data returns.  album_id is a fresh
\* uuid; label and styles are not read by any property checked here.
AlbumObj(d, album_url) ==
  [album_name |-> d.h1, release_year |-> ReleaseYear(d),
   tracks |-> ExtractTracks(d), source_url |-> album_url]

(***************************************************************************)
(* Album documents tried.                                                  *)
(***************************************************************************)
AlbumName == <<"A", "b">>
NameDigits == <<"1", "2">>
NameRestated == AlbumName \o <<" ", "(", "l", "i", "v", "e", ")">>
NamePlus9 == AlbumName \o <<" ", "r", "e", "m", "a", "s", "t", "e", "r">>
NamePlus10 == AlbumName \o <<" ", "r", "e", "m", "a", "s", "t", "e", "r", "s">>
NamePlus11 == NamePlus10 \o <<"!">>
NameSong == <<"S", "o", "n", "g", " ", "1">>
NameIntro == <<"I", "n", "t", "r", "o">>
DurText == <<"3", ":", "4", "5">>

RowOf(title, cells, dur) == [title |-> title, cells |-> cells, dur |-> dur]

Rows ==
  { RowOf(NameSong, <<>>, DurText),
    RowOf(NameSong, <<>>, NoSuchElement),
    RowOf(NameDigits, <<>>, DurText),
    RowOf(AlbumName, <<>>, DurText),
    RowOf(NameRestated, <<>>, NoSuchElement),
    RowOf(NamePlus9, <<>>, DurText),
    RowOf(NamePlus10, <<>>, DurText),
    RowOf(NamePlus11, <<>>, DurText),
    RowOf(<<>>, <<>>, DurText),
    RowOf(NameIntro, <<>>, DurText),
    RowOf(NoSuchElement, <<DurText, NameIntro, NameSong>>, DurText),
    RowOf(NoSuchElement, <<NameIntro>>, NoSuchElement),
    RowOf(Raises, <<>>, DurText) }

Headings == {None, <<>>, AlbumName}

YearElemOf(found, href, text) == [found |-> found, href |-> href, text |-> text]

\* no Year cell on the document
NoYearElem == YearElemOf(FALSE, None, <<>>)

Year1969 == <<"1", "9", "6", "9">>

YearElems ==
  { NoYearElem,
    YearElemOf(TRUE, None, Year1969),
    YearElemOf(TRUE, <<BASE_URL, "/search/", "?", "year=">> \o Year1969, <<>>),
    YearElemOf(TRUE, <<BASE_URL, "/search/">>, Year1969),
    YearElemOf(TRUE, <<BASE_URL, "/search/">>, <<>>) }

HtmlChars == {"1", "9", "2", "0", " "}

AlbumDocWithYear(h1, rows, year, html) ==
  [h1 |-> h1, rows |-> rows, year |-> year, html |-> html]

AlbumDocOf(h1, rows) == AlbumDocWithYear(h1, rows, NoYearElem, <<>>)

\* album documents that differ in the Year cell and in the raw markup
YearDocs ==
  {AlbumDocWithYear(None, <<>>, y, html) :
     y \in YearElems, html \in SeqsUpTo(HtmlChars, MaxHtml)}

AlbumDocs == {AlbumDocOf(h, rs) : h \in Headings, rs \in SeqsUpTo(Rows, MaxRows)}

(***************************************************************************)
(* Documents of a whole run.                                               *)
(***************************************************************************)
Release100q == <<BASE_URL, "/release/", "100", "?", "x=1">>
Release100 == <<BASE_URL, "/release/", "100">>
Master200 == <<"/master/", "200">>
Release300 == <<BASE_URL, "/release/", "300">>
BandName == <<"T", "B">>

ArtistDocOf(reachable, h1, banner, links) ==
  [reachable |-> reachable, h1 |-> h1, banner |-> banner, links |-> links]

\* driver.get raised: nothing was loaded
UnreachableDoc == ArtistDocOf(FALSE, None, FALSE, <<>>)

RunArtistDocs ==
  { UnreachableDoc,
    ArtistDocOf(TRUE, None, TRUE, <<Release100>>),
    ArtistDocOf(TRUE, BandName, FALSE, <<>>),
    ArtistDocOf(TRUE, BandName, TRUE,
                <<Release100q, HrefA1, Release100, Master200, Release300>>) }

RunAlbumDocs ==
  { AlbumDocOf(None, <<>>),
    AlbumDocOf(AlbumName, << RowOf(NameSong, <<>>, DurText),
                             RowOf(NameDigits, <<>>, DurText),
                             RowOf(NameIntro, <<>>, NoSuchElement) >>) }

RunListings ==
  { PageOf(<<HrefA1q, HrefA2, HrefA1, HrefOther, HrefA3, HrefA2>>, 4, 6, 6, {3, 4}),
    PageOf(<<HrefA2, HrefA1>>, 0, 2, 2, {1, 4}),
    PageOf(<<>>, 0, 0, 0, {2, 3, 4}) }

(***************************************************************************)
(* main, pipeline_runner.py lines 84-105.                                  *)
(***************************************************************************)
\* driver.get(locator): a navigation, after which no pause has happened yet
Navigate(locator) == navs' = Append(navs, locator) /\ paused' = FALSE

\* an exception leaves the try block of main (line 100)
Propagate == exc' = "Exception" /\ pc' = "main_except"

\* line 88
MainGet ==
  /\ pc = "main_get"
  /\ Navigate(GenreUrl)
  /\ pc' = "reject_cookies"
  /\ UNCHANGED <<exc, listing, artist_limit, album_limit, artists, idx, adoc,
                 artist_data, album_links, aidx, albums, doc, album_data,
                 all_artists, warned, save, output, quits>>

\* line 88, driver.get raises
MainGetRaises ==
  /\ pc = "main_get"
  /\ Navigate(GenreUrl)
  /\ Propagate
  /\ UNCHANGED <<listing, artist_limit, album_limit, artists, idx, adoc,
                 artist_data, album_links, aidx, albums, doc, album_data,
                 all_artists, warned, save, output, quits>>

\* line 89; helpers.py lines 106-130: a pause only when a button was clicked
RejectCookies ==
  /\ pc = "reject_cookies"
  /\ \E clicked \in BOOLEAN : paused' = (paused \/ clicked)
  /\ pc' = "genre_get"
  /\ UNCHANGED <<exc, listing, artist_limit, album_limit, artists, idx, adoc,
                 artist_data, album_links, aidx, albums, doc, album_data,
                 all_artists, warned, save, output, navs, quits>>

\* scraper.py lines 37-38
GenreGet ==
  /\ pc = "genre_get"
  /\ Navigate(GenreUrl)
  /\ pc' = "genre_collect"
  /\ UNCHANGED <<exc, listing, artist_limit, album_limit, artists, idx, adoc,
                 artist_data, album_links, aidx, albums, doc, album_data,
                 all_artists, warned, save, output, quits>>

\* scraper.py line 38, driver.get raises
GenreGetRaises ==
  /\ pc = "genre_get"
  /\ Navigate(GenreUrl)
  /\ Propagate
  /\ UNCHANGED <<listing, artist_limit, album_limit, artists, idx, adoc,
                 artist_data, album_links, aidx, albums, doc, album_data,
                 all_artists, warned, save, output, quits>>

\* scraper.py lines 39-105
GenreCollect ==
  /\ pc = "genre_collect"
  /\ artists' = CollectArtists(listing, artist_limit)
  /\ pc' = "main_check"
  /\ UNCHANGED <<exc, listing, artist_limit, album_limit, idx, adoc,
                 artist_data, album_links, aidx, albums, doc, album_data,
                 all_artists, warned, save, output, navs, paused, quits>>

\* lines 92-98 and 35
MainCheck ==
  /\ pc = "main_check"
  /\ pc' = IF artists = <<>> THEN "finally" ELSE "loop_head"
  /\ idx' = 1
  /\ all_artists' = <<>>
  /\ UNCHANGED <<exc, listing, artist_limit, album_limit, artists, adoc,
                 artist_data, album_links, aidx, albums, doc, album_data,
                 warned, save, output, navs, paused, quits>>

(***************************************************************************)
(* process_artists_and_save, pipeline_runner.py lines 35-57.               *)
(***************************************************************************)
\* lines 37-41: the next artist, or the end of the loop
LoopHead ==
  /\ pc = "loop_head"
  /\ pc' = IF idx <= Len(artists) THEN "artist_get" ELSE "save"
  /\ UNCHANGED <<exc, listing, artist_limit, album_limit, artists, idx, adoc,
                 artist_data, album_links, aidx, albums, doc, album_data,
                 all_artists, warned, save, output, navs, paused, quits>>

\* lines 43-49, a version that puts the new record in front
LoopAppendInFront ==
  /\ pc = "loop_append"
  /\ IF artist_data # <<>>
     THEN all_artists' = <<artist_data[1]>> \o all_artists /\ warned' = warned
     ELSE all_artists' = all_artists /\ warned' = Append(warned, artists[idx])
  /\ paused' = TRUE
  /\ idx' = idx + 1
  /\ pc' = "loop_head"
  /\ UNCHANGED <<exc, listing, artist_limit, album_limit, artists, adoc,
                 artist_data, album_links, aidx, albums, doc, album_data,
                 save, output, navs, quits>>

\* lines 43-49
LoopAppend ==
  /\ pc = "loop_append"
  /\ IF artist_data # <<>>
     THEN all_artists' = Append(all_artists, artist_data[1]) /\ warned' = warned
     ELSE all_artists' = all_artists /\ warned' = Append(warned, artists[idx])
  /\ paused' = TRUE
  /\ idx' = idx + 1
  /\ pc' = "loop_head"
  /\ UNCHANGED <<exc, listing, artist_limit, album_limit, artists, adoc,
                 artist_data, album_links, aidx, albums, doc, album_data,
                 save, output, navs, quits>>

\* lines 52-57
Save ==
  /\ pc = "save"
  /\ output' = all_artists
  /\ save' = "ok"
  /\ pc' = "finally"
  /\ UNCHANGED <<exc, listing, artist_limit, album_limit, artists, idx, adoc,
                 artist_data, album_links, aidx, albums, doc, album_data,
                 all_artists, warned, navs, paused, quits>>

\* line 52, jsonlines.open raises
SaveRaises ==
  /\ pc = "save"
  /\ save' = "failed"
  /\ Propagate
  /\ UNCHANGED <<listing, artist_limit, album_limit, artists, idx, adoc,
                 artist_data, album_links, aidx, albums, doc, album_data,
                 all_artists, warned, output, navs, paused, quits>>

(***************************************************************************)
(* get_artist_data, scraper.py lines 132-233.                              *)
(***************************************************************************)
\* lines 132-135: the document answers, or driver.get raises
ArtistGet ==
  /\ pc = "artist_get"
  /\ \E d \in RunArtistDocs :
       /\ adoc' = d
       /\ IF d.reachable
          THEN pc' = "artist_init" /\ artist_data' = artist_data
          ELSE pc' = "loop_append" /\ artist_data' = <<>>
  /\ Navigate(artists[idx])
  /\ UNCHANGED <<exc, listing, artist_limit, album_limit, artists, idx,
                 album_links, aidx, albums, doc, album_data, all_artists,
                 warned, save, output, quits>>

\* lines 137-146, a version that goes on when the h1 never appears
ArtistInitNoTimeout ==
  /\ pc = "artist_init"
  /\ paused' = TRUE
  /\ pc' = "artist_collect"
  /\ UNCHANGED <<exc, listing, artist_limit, album_limit, artists, idx, adoc,
                 artist_data, album_links, aidx, albums, doc, album_data,
                 all_artists, warned, save, output, navs, quits>>

\* lines 137-146: handle_language_warning (helpers.py lines 150-169) pauses
\* only when the banner was clicked and the h1 then appeared
ArtistInit ==
  /\ pc = "artist_init"
  /\ IF adoc.h1 = None
     THEN /\ artist_data' = <<>>
          /\ paused' = paused
          /\ pc' = "loop_append"
     ELSE /\ artist_data' = artist_data
          /\ paused' = TRUE
          /\ pc' = "artist_collect"
  /\ UNCHANGED <<exc, listing, artist_limit, album_limit, artists, idx, adoc,
                 album_links, aidx, albums, doc, album_data, all_artists,
                 warned, save, output, navs, quits>>

\* lines 148-215: name, members, websites (never raise) and the album links
ArtistCollect ==
  /\ pc = "artist_collect"
  /\ album_links' = CollectAlbumLinks(adoc.links, album_limit)
  /\ albums' = <<>>
  /\ aidx' = 1
  /\ pc' = "album_head"
  /\ UNCHANGED <<exc, listing, artist_limit, album_limit, artists, idx, adoc,
                 artist_data, doc, album_data, all_artists, warned, save,
                 output, navs, paused, quits>>

\* lines 224-233: artist_id is a fresh uuid; members and websites are not
\* read by any property checked here
ArtistObj ==
  [artist_name |-> adoc.h1, albums |-> albums, source_url |-> artists[idx]]

\* lines 216-217 and 224-233: the next album, or the record is returned
AlbumHead ==
  /\ pc = "album_head"
  /\ IF aidx <= Len(album_links)
     THEN pc' = "album_get" /\ artist_data' = artist_data
     ELSE pc' = "loop_append" /\ artist_data' = <<ArtistObj>>
  /\ UNCHANGED <<exc, listing, artist_limit, album_limit, artists, idx, adoc,
                 album_links, aidx, albums, doc, album_data, all_artists,
                 warned, save, output, navs, paused, quits>>

\* lines 218-222
AlbumAppend ==
  /\ pc = "album_append"
  /\ albums' = IF album_data # <<>> THEN Append(albums, album_data[1])
               ELSE albums
  /\ paused' = TRUE
  /\ aidx' = aidx + 1
  /\ pc' = "album_head"
  /\ UNCHANGED <<exc, listing, artist_limit, album_limit, artists, idx, adoc,
                 artist_data, album_links, doc, album_data, all_artists,
                 warned, save, output, navs, quits>>

(***************************************************************************)
(* get_album_data, scraper.py lines 254-410.                               *)
(***************************************************************************)
\* lines 254-255
AlbumGet ==
  /\ pc = "album_get"
  /\ doc' \in RunAlbumDocs
  /\ Navigate(album_links[aidx])
  /\ pc' = "album_init"
  /\ UNCHANGED <<exc, listing, artist_limit, album_limit, artists, idx, adoc,
                 artist_data, album_links, aidx, albums, album_data,
                 all_artists, warned, save, output, quits>>

\* lines 254-257, driver.get raises
AlbumGetRaises ==
  /\ pc = "album_get"
  /\ Navigate(album_links[aidx])
  /\ album_data' = <<>>
  /\ pc' = "album_append"
  /\ UNCHANGED <<exc, listing, artist_limit, album_limit, artists, idx, adoc,
                 artist_data, album_links, aidx, albums, doc, all_artists,
                 warned, save, output, quits>>

\* lines 260-268: the h1 wait may time out; the pause is unconditional
AlbumInit ==
  /\ pc = "album_init"
  /\ paused' = TRUE
  /\ pc' = "album_extract"
  /\ UNCHANGED <<exc, listing, artist_limit, album_limit, artists, idx, adoc,
                 artist_data, album_links, aidx, albums, doc, album_data,
                 all_artists, warned, save, output, navs, quits>>

\* lines 270-410
AlbumExtract ==
  /\ pc = "album_extract"
  /\ album_data' = <<AlbumObj(doc, album_links[aidx])>>
  /\ pc' = "album_append"
  /\ UNCHANGED <<exc, listing, artist_limit, album_limit, artists, idx, adoc,
                 artist_data, album_links, aidx, albums, doc, all_artists,
                 warned, save, output, navs, paused, quits>>

\* lines 270-278: driver.page_source or the h1 lookups raise; no handler in
\* get_album_data, get_artist_data or process_artists_and_save
AlbumExtractRaises ==
  /\ pc = "album_extract"
  /\ Propagate
  /\ UNCHANGED <<listing, artist_limit, album_limit, artists, idx, adoc,
                 artist_data, album_links, aidx, albums, doc, album_data,
                 all_artists, warned, save, output, navs, paused, quits>>

(***************************************************************************)
(* main: except and finally, pipeline_runner.py lines 100-105.             *)
(***************************************************************************)
\* lines 100-101, a version of main without the except clause
MainExceptMissing ==
  /\ pc = "main_except"
  /\ pc' = "finally"
  /\ UNCHANGED <<exc, listing, artist_limit, album_limit, artists, idx, adoc,
                 artist_data, album_links, aidx, albums, doc, album_data,
                 all_artists, warned, save, output, navs, paused, quits>>

\* lines 100-101
MainExcept ==
  /\ pc = "main_except"
  /\ exc' = "none"
  /\ pc' = "finally"
  /\ UNCHANGED <<listing, artist_limit, album_limit, artists, idx, adoc,
                 artist_data, album_links, aidx, albums, doc, album_data,
                 all_artists, warned, save, output, navs, paused, quits>>

\* lines 103-105: driver.quit, then main returns or the exception goes on
Finally ==
  /\ pc = "finally"
  /\ quits' = quits + 1
  /\ pc' = IF exc = "none" THEN "returned" ELSE "raised"
  /\ UNCHANGED <<exc, listing, artist_limit, album_limit, artists, idx, adoc,
                 artist_data, album_links, aidx, albums, doc, album_data,
                 all_artists, warned, save, output, navs, paused>>

(***************************************************************************)
(* Specifications.                                                         *)
(***************************************************************************)
\* the locals of a run before anything has happened
Fresh ==
  /\ exc = "none"
  /\ artists = <<>>
  /\ idx = 1
  /\ adoc = UnreachableDoc
  /\ artist_data = <<>>
  /\ album_links = <<>>
  /\ aidx = 1
  /\ albums = <<>>
  /\ album_data = <<>>
  /\ all_artists = <<>>
  /\ warned = <<>>
  /\ save = "none"
  /\ output = <<>>
  /\ navs = <<>>
  /\ paused = FALSE
  /\ quits = 0

\* main(artist_limit, album_limit) right after init_driver
Init ==
  /\ pc = "main_get"
  /\ listing \in RunListings
  /\ artist_limit \in 0..MaxLimit
  /\ album_limit \in 0..MaxAlbumLimit
  /\ doc = AlbumDocOf(None, <<>>)
  /\ Fresh

Next ==
  \/ MainGet
  \/ MainGetRaises
  \/ RejectCookies
  \/ GenreGet
  \/ GenreGetRaises
  \/ GenreCollect
  \/ MainCheck
  \/ LoopHead
  \/ LoopAppend
  \/ Save
  \/ SaveRaises
  \/ ArtistGet
  \/ ArtistInit
  \/ ArtistCollect
  \/ AlbumHead
  \/ AlbumAppend
  \/ AlbumGet
  \/ AlbumGetRaises
  \/ AlbumInit
  \/ AlbumExtract
  \/ AlbumExtractRaises
  \/ MainExcept
  \/ Finally

Spec == Init /\ [][Next]_vars

\* get_artists_by_genre(driver, "rock", limit) on any genre page, once loaded
InitDiscover ==
  /\ pc = "genre_collect"
  /\ \E flat \in SeqsUpTo(Hrefs, MaxLinks) :
       \E c1 \in 0..Len(flat) : \E c2 \in c1..Len(flat) : \E c3 \in c2..Len(flat) :
         \E miss \in MissingChoices(PageOf(flat, c1, c2, c3, {})) :
           listing = PageOf(flat, c1, c2, c3, miss)
  /\ artist_limit \in 0..MaxLimit
  /\ album_limit = 0
  /\ doc = AlbumDocOf(None, <<>>)
  /\ exc = "none"
  /\ artists = <<>>
  /\ idx = 1
  /\ adoc = UnreachableDoc
  /\ artist_data = <<>>
  /\ album_links = <<>>
  /\ aidx = 1
  /\ albums = <<>>
  /\ album_data = <<>>
  /\ all_artists = <<>>
  /\ warned = <<>>
  /\ save = "none"
  /\ output = <<>>
  /\ navs = <<GenreUrl>>
  /\ paused = FALSE
  /\ quits = 0

NextDiscover ==
  \/ GenreCollect

SpecDiscover == InitDiscover /\ [][NextDiscover]_vars

\* get_album_data(driver, album_url) on any album document, once loaded
InitAlbum ==
  /\ pc = "album_init"
  /\ listing = PageOf(<<>>, 0, 0, 0, {})
  /\ artist_limit = 0
  /\ album_limit = 1
  /\ doc \in AlbumDocs \cup YearDocs
  /\ exc = "none"
  /\ artists = <<>>
  /\ idx = 1
  /\ adoc = UnreachableDoc
  /\ artist_data = <<>>
  /\ album_links = <<Release100>>
  /\ aidx = 1
  /\ albums = <<>>
  /\ album_data = <<>>
  /\ all_artists = <<>>
  /\ warned = <<>>
  /\ save = "none"
  /\ output = <<>>
  /\ navs = <<Release100>>
  /\ paused = FALSE
  /\ quits = 0

NextAlbum ==
  \/ AlbumInit
  \/ AlbumExtract
  \/ AlbumExtractRaises

SpecAlbum == InitAlbum /\ [][NextAlbum]_vars

(***************************************************************************)
(* Properties of link discovery (SpecDiscover).                            *)
(***************************************************************************)
Range(s) == {s[i] : i \in 1..Len(s)}

\* the locator of a link: query stripped, host set to BASE_URL
Locator(href) == FullUrl(NormalizedPath(href))

\* the links of a section up to the first one that cannot be read
RECURSIVE Readable(_)
Readable(links) ==
  IF links = <<>> \/ Head(links) = Raises THEN <<>>
  ELSE <<Head(links)>> \o Readable(Tail(links))

\* the readable links of the page, section after section, in document order
RECURSIVE ReadableOfSections(_)
ReadableOfSections(sections) ==
  IF sections = <<>> THEN <<>>
  ELSE (IF Head(sections).missing THEN <<>> ELSE Readable(Head(sections).links))
       \o ReadableOfSections(Tail(sections))

PageLinks(page) == UNION {Range(page[i].links) : i \in 1..NumSelectors}

\* position of the first readable artist link with locator u (0: none)
FirstSeen(flat, u) ==
  LET hits == {i \in 1..Len(flat) :
                 ~NotArtistLink(flat[i]) /\ Locator(flat[i]) = u}
  IN IF hits = {} THEN 0
     ELSE CHOOSE i \in hits : \A j \in hits : i <= j

\* C1: get_artists_by_genre returns each normalized artist locator at most
\* once, in the order of first occurrence (section order, then document
\* order inside a section), and a link whose target has no "/artist/" never
\* appears in the result.
C1_DedupFirstSeenOrder ==
  pc = "main_check" =>
    LET flat == ReadableOfSections(listing) IN
    /\ NoDuplicates(artists)
    /\ \A i \in 1..Len(artists) : FirstSeen(flat, artists[i]) > 0
    /\ \A i, j \in 1..Len(artists) :
         i < j => FirstSeen(flat, artists[i]) < FirstSeen(flat, artists[j])
    /\ \A h \in PageLinks(listing) :
         ~Contains(h, "/artist/") =>
           h \notin Range(artists) /\ Locator(h) \notin Range(artists)

\* a page where the same artist is linked in two sections under two
\* spellings, next to another artist: both are returned once
C1_Witness ==
  /\ pc = "main_check"
  /\ Contains(listing[1].links, HrefA1q)
  /\ Contains(listing[2].links, HrefA1)
  /\ artists = <<Locator(HrefA1), Locator(HrefA3)>>

\* a cap no page of the model reaches
NoCap == MaxLinks + 1

\* C2: for a cap k >= 1 get_artists_by_genre returns at most k locators,
\* exactly the first min(k, n) entries of what it returns without a cap.
C2_CapIsPrefix ==
  (pc = "main_check" /\ artist_limit >= 1) =>
    /\ Len(artists) <= artist_limit
    /\ artists = Take(CollectArtists(listing, NoCap), artist_limit)

\* the cap cuts the result short inside the second section
C2_Witness ==
  /\ pc = "main_check"
  /\ artist_limit = 1
  /\ artists = <<Locator(HrefA1)>>
  /\ Len(CollectArtists(listing, NoCap)) = 2
  /\ listing[1].links = <<HrefOther>>
  /\ listing[2].links = <<HrefA1q, HrefA3>>

(***************************************************************************)
(* Properties of a whole run (Spec).                                       *)
(***************************************************************************)
\* C3: for every album cap k >= 0, get_artist_data collects at most k album
\* links, navigates to at most k album documents and returns at most k
\* albums.
C3_AlbumCap ==
  /\ Len(album_links) <= album_limit
  /\ aidx - 1 <= album_limit
  /\ Len(albums) <= album_limit

\* C4: a failure while an artist or one of its albums is extracted never
\* aborts the run: when main is over, get_artist_data was called for every
\* discovered locator.
C4_RunNeverAborted ==
  (quits >= 1 /\ artists # <<>>) => idx = Len(artists) + 1

\* C5: when the run ends with assembled artist records, a write of these
\* records was made before the session was closed.
C5_RecordsFlushed ==
  (quits >= 1 /\ all_artists # <<>>) => save # "none"

\* C6: when the artist navigation raises or the h1 never appears,
\* get_artist_data returns None with no album navigated; the loop goes on
\* without raising, the artist gives no record, and the number of saved
\* records is the number of artists whose extraction returned a record.
C6_ArtistFailureSkipped ==
  /\ (pc = "loop_append" /\ (~adoc.reachable \/ adoc.h1 = None)) =>
       /\ artist_data = <<>>
       /\ exc = "none"
       /\ navs[Len(navs)] = artists[idx]
  /\ pc = "loop_head" =>
       /\ Len(all_artists) + Len(warned) = idx - 1
       /\ \A i \in 1..Len(all_artists) :
            all_artists[i].source_url \notin Range(warned)
  /\ save = "ok" =>
       /\ output = all_artists
       /\ Len(output) = Len(artists) - Len(warned)

\* the first artist failed, the second one was saved
C6_Witness ==
  /\ save = "ok"
  /\ warned = <<artists[1]>>
  /\ Len(output) = 1
  /\ output[1].source_url = artists[2]

(***************************************************************************)
(* Properties of the tracklist (SpecAlbum).                                *)
(***************************************************************************)
NoRowRaises == \A i \in 1..Len(doc.rows) : ~RowRaises(doc.rows[i])

Survives(r) == ~DiscardRow(TrackName(r), doc.h1)

\* C7: the emitted tracks are numbered 1..N in scan order, N the number of
\* rows that pass the integrity filter; a discarded row uses no number.
C7_TrackNumbering ==
  (pc = "album_append" /\ album_data # <<>>) =>
    LET tracks == album_data[1].tracks
        kept == SelectSeq(doc.rows, Survives)
    IN /\ \A i \in 1..Len(tracks) : tracks[i].track_number = i
       /\ NoRowRaises =>
            /\ Len(tracks) = Len(kept)
            /\ \A i \in 1..Len(tracks) :
                 tracks[i].track_name = TrackName(kept[i])

\* a discarded row between two surviving rows
C7_Witness ==
  /\ pc = "album_append"
  /\ album_data # <<>>
  /\ Len(doc.rows) = 3
  /\ Survives(doc.rows[1])
  /\ ~RowRaises(doc.rows[2]) /\ ~Survives(doc.rows[2])
  /\ Survives(doc.rows[3])
  /\ Len(album_data[1].tracks) = 2

\* the integrity filter as section 4.3 of the specification words it
SpecValidName(name, album) ==
  /\ ~Falsy(name)
  /\ ~AllDigits(name)
  /\ ~(~Falsy(album) /\ IsIn(album, name) /\ Len(name) <= Len(album) + 10)

\* C8: every emitted track has a non-empty name that is not purely numeric
\* and is not the album name; a row with a valid name and no duration cell
\* is emitted with duration None.
C8_TrackIntegrity ==
  (pc = "album_append" /\ album_data # <<>>) =>
    LET tracks == album_data[1].tracks IN
    /\ \A i \in 1..Len(tracks) :
         /\ ~Falsy(tracks[i].track_name)
         /\ ~AllDigits(tracks[i].track_name)
         /\ tracks[i].track_name # album_data[1].album_name
    /\ NoRowRaises =>
         \A i \in 1..Len(doc.rows) :
           (doc.rows[i].dur = NoSuchElement
              /\ SpecValidName(TrackName(doc.rows[i]), doc.h1)) =>
             \E k \in 1..Len(tracks) :
               /\ tracks[k].track_name = TrackName(doc.rows[i])
               /\ tracks[k].duration = None

\* a numeric row, a row named like the album and a row without duration
C8_Witness ==
  /\ pc = "album_append"
  /\ album_data # <<>>
  /\ doc.h1 = AlbumName
  /\ doc.rows = << RowOf(NameDigits, <<>>, DurText),
                   RowOf(AlbumName, <<>>, DurText),
                   RowOf(NameSong, <<>>, NoSuchElement) >>
  /\ album_data[1].tracks =
       << [track_number |-> 1, track_name |-> NameSong, duration |-> None] >>

(***************************************************************************)
(* Properties of main (Spec).                                              *)
(***************************************************************************)
\* C9: when the first listing section never becomes present,
\* get_artists_by_genre returns an empty list and main ends early: only the
\* genre page is navigated and nothing is written.
C9_ListingFailureEndsRun ==
  listing[1].missing =>
    /\ artists = <<>>
    /\ save = "none"
    /\ output = <<>>
    /\ \A i \in 1..Len(navs) : navs[i] = GenreUrl
    /\ pc \in {"main_get", "reject_cookies", "genre_get", "genre_collect",
               "main_check", "main_except", "finally", "returned"}

\* the first section is absent although a later one holds artist links
C9_Witness ==
  /\ listing[1].missing
  /\ ~listing[2].missing
  /\ ~NotArtistLink(listing[2].links[1])
  /\ pc = "returned"
  /\ Len(navs) = 2

\* C10: once the session exists, main lets no exception escape and calls
\* driver.quit exactly once, as its last operation, on every path.
C10_QuitOnceAndLast ==
  /\ pc # "raised"
  /\ quits <= 1
  /\ pc = "returned" => (quits = 1 /\ exc = "none")
  /\ quits = 1 => pc = "returned"
  /\ ~ENABLED Next => pc = "returned"

\* an album document raised while the second artist was processed
C10_Witness ==
  /\ pc = "returned"
  /\ quits = 1
  /\ idx = 2
  /\ Len(artists) = 2
  /\ save = "none"

(***************************************************************************)
(* Properties of the normalisation (SpecDiscover).                         *)
(***************************************************************************)
\* the same link carrying one more query parameter
WithExtraQuery(href) ==
  IF Contains(href, "?") THEN href \o <<"&", "y=2">>
  ELSE href \o <<"?", "y=2">>

\* C11: the locator normalisation of get_artists_by_genre is idempotent and
\* gives the same result with and without extra query parameters; so does
\* the album-link normalisation of get_artist_data.
C11_NormalizeIdempotent ==
  pc = "main_check" =>
    /\ \A h \in PageLinks(listing) :
         ~NotArtistLink(h) =>
           /\ Locator(Locator(h)) = Locator(h)
           /\ Locator(WithExtraQuery(h)) = Locator(h)
           /\ Locator(SplitFirst(h, "?")) = Locator(h)
    /\ \A h \in PageLinks(listing) \ {None, Raises} :
         /\ NormalizedUrl(NormalizedUrl(h)) = NormalizedUrl(h)
         /\ NormalizedUrl(WithExtraQuery(h)) = NormalizedUrl(h)
    /\ \A i \in 1..Len(artists) : Locator(artists[i]) = artists[i]

\* a link with a query and a relative link with trailing white space were
\* both normalised into the result
C11_Witness ==
  /\ pc = "main_check"
  /\ listing[1].links = <<HrefA1q, HrefA3>>
  /\ artists = <<Locator(HrefA1), <<BASE_URL, "/artist/", "3">> >>

(***************************************************************************)
(* Properties of the integrity filter and of the year (SpecAlbum).         *)
(***************************************************************************)
\* the name is the track_name of an emitted track
Emitted(name) ==
  \E k \in 1..Len(album_data[1].tracks) :
    album_data[1].tracks[k].track_name = name

\* row i has a non-numeric name that contains the album name
RestatingRow(i) ==
  /\ ~Falsy(doc.h1)
  /\ ~Falsy(TrackName(doc.rows[i]))
  /\ ~AllDigits(TrackName(doc.rows[i]))
  /\ IsIn(doc.h1, TrackName(doc.rows[i]))

\* by how many characters the name of row i is longer than the album name
Excess(i) == Len(TrackName(doc.rows[i])) - Len(doc.h1)

\* C12 as stated: a row whose name contains the album name is discarded
\* for every length difference d with 0 <= d <= 10 and kept when d > 10.
C12_RestatedUpToTen ==
  (pc = "album_append" /\ album_data # <<>> /\ NoRowRaises) =>
    \A i \in 1..Len(doc.rows) :
      RestatingRow(i) =>
        /\ Excess(i) <= 10 => ~Emitted(TrackName(doc.rows[i]))
        /\ Excess(i) > 10 => Emitted(TrackName(doc.rows[i]))

\* C12 as amended: a row whose name contains the album name is discarded
\* for every length difference d with 0 <= d < 10 and kept when d >= 10.
C12_RestatedBelowTen ==
  (pc = "album_append" /\ album_data # <<>> /\ NoRowRaises) =>
    \A i \in 1..Len(doc.rows) :
      RestatingRow(i) =>
        /\ Excess(i) < 10 => ~Emitted(TrackName(doc.rows[i]))
        /\ Excess(i) >= 10 => Emitted(TrackName(doc.rows[i]))

\* names 9, 10 and 11 characters longer than the album name: the first is
\* discarded, the other two are emitted
C12_Witness ==
  /\ pc = "album_append"
  /\ album_data # <<>>
  /\ doc.h1 = AlbumName
  /\ doc.rows = << RowOf(NamePlus9, <<>>, DurText),
                   RowOf(NamePlus10, <<>>, DurText),
                   RowOf(NamePlus11, <<>>, DurText) >>
  /\ Len(album_data[1].tracks) = 2
  /\ album_data[1].tracks[1].track_name = NamePlus10
  /\ album_data[1].tracks[2].track_name = NamePlus11

\* the first whole 4-digit token beginning with 19 or 20 (None: no token)
FirstYearToken(html) ==
  LET starts == {i \in 1..Len(html) : YearTokenAt(html, i)} IN
  IF starts = {} THEN None
  ELSE LET i == CHOOSE k \in starts : \A m \in starts : k <= m
       IN SubSeq(html, i, i + 3)

\* the Year cell strategy ran but found neither a year= target nor a text
PrimaryYieldsNothing(d) ==
  ~PrimaryRaises(d) /\ YearMatches(d.year.href) = {} /\ Falsy(d.year.text)

\* C13: when the Year cell strategy raises or yields no year, release_year
\* is the first whole 4-digit token beginning with 19 or 20 of the raw
\* markup (None when there is none); otherwise it is what the Year cell
\* gave.
C13_YearFallback ==
  (pc = "album_append" /\ album_data # <<>>) =>
    /\ (PrimaryRaises(doc) \/ PrimaryYieldsNothing(doc)) =>
         IF FirstYearToken(doc.html) = None
         THEN Falsy(album_data[1].release_year)
         ELSE album_data[1].release_year = FirstYearToken(doc.html)
    /\ (~PrimaryRaises(doc) /\ ~PrimaryYieldsNothing(doc)) =>
         album_data[1].release_year = Year1969

(***************************************************************************)
(* Properties of section failures (SpecDiscover).                          *)
(***************************************************************************)
\* the section was found and reading one of its links raises
SectionFails(sec) == ~sec.missing /\ Contains(sec.links, Raises)

\* the page without the links of its failing sections
WithoutFailing(page) ==
  [i \in 1..NumSelectors |->
     IF SectionFails(page[i]) THEN SectionOf(<<>>, FALSE) ELSE page[i]]

\* C14: a section that is not found is skipped and a section whose
\* processing fails, also part-way through its links, contributes no
\* locator; the other sections are scanned in order all the same.  Stated
\* for the runs in which the cap is not reached, so that every section is
\* scanned.
C14_FailingSectionContributesNothing ==
  (pc = "main_check" /\ ~listing[1].missing /\ Len(artists) < artist_limit) =>
    artists = CollectArtists(WithoutFailing(listing), artist_limit)

(***************************************************************************)
(* Properties of pacing and order (Spec).                                  *)
(***************************************************************************)
\* C15: between any two consecutive driver.get calls of a run at least one
\* random_delay happens.
C15_PauseBetweenNavigations ==
  [][(Len(navs') > Len(navs) /\ navs # <<>>) => paused]_vars

IsArtistLocator(u) == Contains(u, "/artist/")

\* the navigations that followed the last navigation to an artist document
RECURSIVE SinceLastArtist(_)
SinceLastArtist(s) ==
  IF s = <<>> \/ IsArtistLocator(s[Len(s)]) THEN <<>>
  ELSE Append(SinceLastArtist(SubSeq(s, 1, Len(s) - 1)), s[Len(s)])

\* position of locator u in the discovery result (0: not there)
PlaceOf(u) ==
  IF \E i \in 1..Len(artists) : artists[i] = u
  THEN CHOOSE i \in 1..Len(artists) : artists[i] = u
  ELSE 0

\* C16: artists are navigated in discovery order, the album links of an
\* artist are navigated in collection order before the next artist, and the
\* saved records keep the order of the discovery result.
C16_SequentialDepthFirst ==
  /\ SelectSeq(navs, IsArtistLocator) \in {Take(artists, idx), Take(artists, idx - 1)}
  /\ pc \in {"album_head", "album_get", "album_init", "album_extract",
             "album_append"} =>
       /\ SelectSeq(navs, IsArtistLocator) = Take(artists, idx)
       /\ SinceLastArtist(navs) \in {Take(album_links, aidx), Take(album_links, aidx - 1)}
  /\ (pc = "loop_append" /\ artist_data # <<>>) =>
       SinceLastArtist(navs) = album_links
  /\ \A i, j \in 1..Len(all_artists) :
       i < j => /\ PlaceOf(all_artists[i].source_url) > 0
                /\ PlaceOf(all_artists[i].source_url)
                     < PlaceOf(all_artists[j].source_url)
  /\ save = "ok" => output = all_artists

\* two artists, each with two albums, were navigated and saved in order
C16_Witness ==
  /\ save = "ok"
  /\ Len(output) = 2
  /\ output[1].source_url = artists[1]
  /\ output[2].source_url = artists[2]
  /\ navs = <<GenreUrl, GenreUrl, artists[1], Release100, Master200,
              artists[2], Release100, Master200>>

====
